---- MODULE Spec2Model ----
(***************************************************************************)
(* Lexer<R: Read> and ASTParser<R> of src/src/lib.rs as a state machine.   *)
(*                                                                         *)
(* A character is a one-character string (the byte read, widened with      *)
(* `as char`), a String is a tuple of characters.  get_token is modelled   *)
(* loop iteration by loop iteration (pc), so that every read of the source *)
(* is one step; the client calls (get_char, get_token, update_token,       *)
(* ASTParser::new, parse_number_expr) start when pc = "idle".              *)
(***************************************************************************)
EXTENDS Naturals, Sequences, FiniteSets

VARIABLES
    data,            \* MockReader.data: the bytes of the source
    position,        \* MockReader.position: bytes delivered so far
    faults,          \* reads the source may still fail with another error; Forever: all do
    last_char,       \* Lexer.last_char : CharState
    identifier_str,  \* Lexer.identifier_str
    num_val,         \* Lexer.num_val : Option<f64>
    cur_tok,         \* Lexer.cur_tok
    parser,          \* an ASTParser owns the lexer
    ast,             \* ASTParser.ast
    curtok,          \* ASTParser.curtok
    panicked,        \* a panic!() unwound the program
    pc,              \* position inside get_token: "idle", "skip", "ident", "number"
    caller,          \* the call that entered get_token
    number_str,      \* get_token's local number_str
    bound_num,       \* parse_number_expr's binding Some(num_val)
    ret,             \* value returned by the last completed call
    hist,            \* history: tokens returned by get_token, up to the first Eof,
                     \*          while the client has not called get_char itself
                     \*          and the source has not failed for good
    eof_ret,         \* history: get_token has returned Eof
    tok_start,       \* history: value of position when the current token was matched
    opReads,         \* history: reads of the last call that the source answered
    primed,          \* history: get_char was called directly by the client
    lastRead,        \* history: outcome of the last read of the source
    lastOp,          \* history: the last client call
    pre              \* history: the lexer as it was when the last call started

srcVars    == <<data, position, faults>>
lexVars    == <<last_char, identifier_str, num_val, cur_tok>>
parserVars == <<parser, ast, curtok>>
vars == <<data, position, faults, last_char, identifier_str, num_val, cur_tok,
          parser, ast, curtok, panicked, pc, caller, number_str, bound_num, ret,
          hist, eof_ret, tok_start, opReads, primed, lastRead, lastOp, pre>>

----------------------------------------------------------------------------
(* Bounds *)

\* longest input drawn from Alphabet
MaxLen == 3
\* longest input drawn from Alphabet for a source whose reads may fail
MaxLenIO == 2
MaxLenLive == 2
\* most reads a faulty source fails
MaxFaults == 2
MaxText == 8

----------------------------------------------------------------------------
(* Values *)

\* enum CharState
NotInitailized    == <<"NotInitailized">>
CharState_Char(c) == <<"Char", c>>
CharState_Eof     == <<"Eof">>

\* enum Token
Token_None       == <<"None">>
Token_Eof        == <<"Eof">>
Token_Def        == <<"Def">>
Token_Extern     == <<"Extern">>
Token_Identifier == <<"Identifier">>
Token_Number     == <<"Number">>
Token_Char(c)    == <<"Char", c>>
Token_Comment    == <<"Comment">>

\* Option<f64>
None    == <<"None">>
Some(v) == <<"Some", v>>

\* AST nodes and ParseError
EmptyExprAST     == <<"EmptyExprAST">>
NumberExprAST(v) == <<"NumberExprAST", v>>
ErrorAST(e)      == <<"ErrorAST", e>>
LexerError(msg)  == <<"LexerError", msg>>

Unit == <<"()">>

----------------------------------------------------------------------------
(* Character classes of the bytes 0..255 seen as chars *)

\* the ASCII letters (the letters above U+007F classify the same way)
Letters ==
    {"a","b","c","d","e","f","g","h","i","j","k","l","m","n","o","p","q","r","s",
     "t","u","v","w","x","y","z",
     "A","B","C","D","E","F","G","H","I","J","K","L","M","N","O","P","Q","R","S",
     "T","U","V","W","X","Y","Z"}
DecDigits == {"0","1","2","3","4","5","6","7","8","9"}
\* chars of category No below U+0100: numeric for char::is_numeric, no decimal digits
OtherNumerics == {"²", "³", "¹", "¼", "½", "¾"}

\* char::is_alphabetic
IsAlphabetic(c) == c \in Letters
\* char::is_numeric
IsNumeric(c) == c \in DecDigits \cup OtherNumerics
\* char::is_alphanumeric
IsAlphanumeric(c) == IsAlphabetic(c) \/ IsNumeric(c)

\* CharState::is_alphabetic
CharState_is_alphabetic(lc) == lc[1] = "Char" /\ IsAlphabetic(lc[2])

IsChar(lc) == lc[1] = "Char"

----------------------------------------------------------------------------
(* str::parse::<f64> on a run of numerics and '.' *)

DigitVal(c) ==
    CASE c = "0" -> 0 [] c = "1" -> 1 [] c = "2" -> 2 [] c = "3" -> 3 [] c = "4" -> 4
      [] c = "5" -> 5 [] c = "6" -> 6 [] c = "7" -> 7 [] c = "8" -> 8 [] c = "9" -> 9

\* the digits of s read as one integer, the '.' left out
RECURSIVE Mantissa(_)
Mantissa(s) ==
    IF s = <<>> THEN 0
    ELSE LET n == Len(s) IN
         IF s[n] = "." THEN Mantissa(SubSeq(s, 1, n - 1))
         ELSE 10 * Mantissa(SubSeq(s, 1, n - 1)) + DigitVal(s[n])

Dots(s) == {i \in 1..Len(s) : s[i] = "."}

\* number of digits after the '.'
Scale(s) == IF Dots(s) = {} THEN 0 ELSE Len(s) - (CHOOSE i \in Dots(s) : TRUE)

\* m / 10^k with the trailing zeros of the fraction dropped: 1.0 = 1, .10 = .1
RECURSIVE Normalize(_, _)
Normalize(m, k) ==
    IF k > 0 /\ m % 10 = 0 THEN Normalize(m \div 10, k - 1) ELSE <<m, k>>

WellFormedF64(s) ==
    /\ \A i \in 1..Len(s) : s[i] \in DecDigits \cup {"."}
    /\ Cardinality(Dots(s)) <= 1
    /\ \E i \in 1..Len(s) : s[i] \in DecDigits

\* a parse that wants a digit before the '.'
ParseF64_NoLeadingDot(s) ==
    IF WellFormedF64(s) /\ s[1] # "." THEN Some(Normalize(Mantissa(s), Scale(s))) ELSE None

\* number_str.parse::<f64>().ok(); the value is the decimal <<m, k>> = m / 10^k
\* (distinct decimals of this few digits are distinct f64 values)
ParseF64(s) == IF WellFormedF64(s) THEN Some(Normalize(Mantissa(s), Scale(s))) ELSE None

----------------------------------------------------------------------------
(* The source *)

\* the source has failed for good: every read from now on returns the error
Forever == MaxFaults + 1

\* Read::read_exact of one byte on the source: a byte, end-of-stream, or an
\* error of another kind that is passing ("once") or lasting ("forever")
ReadOutcomes ==
    IF faults = Forever THEN {<<"Other", "forever">>} ELSE
    (IF position < Len(data) THEN {<<"Ok", data[position + 1]>>}
                             ELSE {<<"UnexpectedEof">>})
    \cup (IF faults > 0 THEN {<<"Other", "once">>, <<"Other", "forever">>} ELSE {})

\* the match of get_char on the outcome of the read
GetCharResult(lc, r) ==
    CASE r[1] = "Ok"            -> CharState_Char(r[2])
      [] r[1] = "UnexpectedEof" -> CharState_Eof
      [] OTHER                  -> lc

ReadAdvance(r) == IF r[1] = "Ok" THEN position + 1 ELSE position

FaultsLeft(r) ==
    IF r[1] # "Other" THEN faults
    ELSE IF r[2] = "forever" THEN Forever
    ELSE faults - 1

\* 1 for a read the source answered with a byte or with end-of-stream
Answered(r) == IF r[1] = "Other" THEN 0 ELSE 1

----------------------------------------------------------------------------
(* Inputs *)

Alphabet == {" ", "d", "e", "f", "1", ".", "+"}

RECURSIVE Strings(_)
Strings(n) ==
    IF n = 0 THEN {<<>>}
    ELSE LET S == Strings(n - 1) IN
         S \cup {Append(s, c) : s \in {t \in S : Len(t) = n - 1}, c \in Alphabet}

SampleInputs ==
    { <<"a","+","b">>,
      <<"d","e","f"," ","f","o","o","(","x",","," ","y",")"," ","x","+","y">>,
      <<"e","x","t","e","r","n">>,
      <<" "," "," ","e","x","t","e","r","n"," "," ">>,
      <<"d","e","f","i","n","e">>,
      <<"d","e","f","1"," ","D","e","f">>,
      <<"1",".","2","3","4">>,
      <<" "," "," ",".","2","3","4">>,
      <<"1",".","2",".","3"," ","7">>,
      <<"7"," ","1",".","2",".","3">>,
      <<"1","2","3">>,
      <<"4","2"," ","1",".","5","0","+","x","1">>,
      <<" "," "," "," ">>,
      <<"1",".","0"," ","0","1"," ",".","1","0">>,
      <<"1","¼"," ","d","¼"," ","¼">>,
      <<"#"," ","a","\t","1","\n",".">> }

Inputs == Strings(MaxLen) \cup SampleInputs

InputsIO == Strings(MaxLenIO) \cup {<<"a","+","b">>, <<"d","e","f">>, <<"1",".","5">>}

----------------------------------------------------------------------------
(* Lexer::new, and the history of a run *)

Snapshot ==
    [last_char |-> last_char, identifier_str |-> identifier_str, num_val |-> num_val,
     cur_tok |-> cur_tok, position |-> position, ntok |-> Len(hist),
     eof |-> eof_ret]

InitWith(D, F) ==
    /\ data \in D
    /\ position = 0
    /\ faults \in F
    /\ last_char = NotInitailized
    /\ identifier_str = <<>>
    /\ num_val = None
    /\ cur_tok = Token_None
    /\ parser = FALSE
    /\ ast = EmptyExprAST
    /\ curtok = Token_None
    /\ panicked = FALSE
    /\ pc = "idle"
    /\ caller = "none"
    /\ number_str = <<>>
    /\ bound_num = None
    /\ ret = Unit
    /\ hist = <<>>
    /\ eof_ret = FALSE
    /\ tok_start = 0
    /\ opReads = 0
    /\ primed = FALSE
    /\ lastRead = "none"
    /\ lastOp = "new"
    /\ pre = [last_char |-> NotInitailized, identifier_str |-> <<>>, num_val |-> None,
              cur_tok |-> Token_None, position |-> 0, ntok |-> 0, eof |-> FALSE]

\* a source that delivers data and then end-of-stream
Init == InitWith(Inputs, {0})

\* the same source, on the inputs of the runs checked for termination
InitLive == InitWith(Strings(MaxLenLive) \cup SampleInputs, {0})

\* any source: up to MaxFaults reads fail with an error other than UnexpectedEof
InitIO == InitWith(InputsIO, 0..MaxFaults)

Idle == pc = "idle" /\ ~panicked

\* the client starts a call
Begin(op) ==
    /\ lastOp' = op
    /\ pre' = Snapshot
    /\ opReads' = 0

----------------------------------------------------------------------------
(* Lexer::get_char *)

\* self.get_char() on outcome r of the read
DoGetChar(r) ==
    /\ last_char' = GetCharResult(last_char, r)
    /\ position' = ReadAdvance(r)
    /\ faults' = FaultsLeft(r)
    /\ lastRead' = r[1]

\* a client's direct call of get_char on a lexer it owns
GetChar ==
    /\ Idle /\ ~parser
    /\ \E r \in ReadOutcomes : DoGetChar(r) /\ opReads' = Answered(r)
    /\ lastOp' = "get_char"
    /\ pre' = Snapshot
    /\ primed' = TRUE
    /\ ret' = Unit
    /\ UNCHANGED <<data, identifier_str, num_val, cur_tok, parserVars, panicked,
                   pc, caller, number_str, bound_num, hist, eof_ret, tok_start>>

----------------------------------------------------------------------------
(* Lexer::get_token, Lexer::update_token *)

\* a skipping loop that takes tab and newline for spaces too
SkipCond_Whitespace(lc) ==
    \/ lc \in {CharState_Char(" "), CharState_Char("\t"), CharState_Char("\n")}
    \/ lc = NotInitailized

\* a skipping loop that stops on the uninitialized cursor
SkipCond_SpaceOnly(lc) == lc = CharState_Char(" ")

\* the condition of the space-skipping while loop
SkipCond(lc) == lc = CharState_Char(" ") \/ lc = NotInitailized

\* a keyword match on the start of the identifier instead of the whole of it
Keyword_Prefix(str) ==
    CASE Len(str) >= 3 /\ SubSeq(str, 1, 3) = <<"d","e","f">>             -> Token_Def
      [] Len(str) >= 6 /\ SubSeq(str, 1, 6) = <<"e","x","t","e","r","n">> -> Token_Extern
      [] OTHER                                                            -> Token_Identifier

\* match self.identifier_str.as_str()
Keyword(str) ==
    CASE str = <<"d","e","f">>             -> Token_Def
      [] str = <<"e","x","t","e","r","n">> -> Token_Extern
      [] OTHER                             -> Token_Identifier

\* the guard of the number arm and of its loop
NumberStart(c) == IsNumeric(c) \/ c = "."

\* an assignment made only when the parse succeeds
StoreNum_KeepOld(old, str) == IF ParseF64(str) = None THEN old ELSE ParseF64(str)

\* self.num_val = number_str.parse::<f64>().ok()
StoreNum(old, str) == ParseF64(str)

\* what is recorded of a returned token
Entry(t, start, text) == [tok |-> t, start |-> start, text |-> text]

\* update_token's assignment of the token get_token returned
StoreToken(t) == IF caller \in {"update_token", "parse_number_expr"} THEN t ELSE cur_tok

\* parse_number_expr's result after its update_token
Result(t) == IF caller = "parse_number_expr" THEN NumberExprAST(bound_num[2]) ELSE t

\* get_token returns t to its caller, which completes
Return(t, start, text) ==
    /\ pc' = "idle"
    /\ caller' = "none"
    /\ cur_tok' = StoreToken(t)
    /\ ret' = Result(t)
    /\ hist' = IF eof_ret \/ primed \/ faults = Forever THEN hist
               ELSE Append(hist, Entry(t, start, text))
    /\ eof_ret' = (eof_ret \/ t = Token_Eof)

GetToken ==
    /\ Idle /\ ~parser
    /\ Begin("get_token")
    /\ pc' = "skip"
    /\ caller' = "get_token"
    /\ UNCHANGED <<srcVars, lexVars, parserVars, panicked, number_str, bound_num, ret,
                   hist, eof_ret, tok_start, primed, lastRead>>

UpdateToken ==
    /\ Idle
    /\ Begin("update_token")
    /\ pc' = "skip"
    /\ caller' = "update_token"
    /\ UNCHANGED <<srcVars, lexVars, parserVars, panicked, number_str, bound_num, ret,
                   hist, eof_ret, tok_start, primed, lastRead>>

\* one iteration of the while loop
Skip ==
    /\ pc = "skip" /\ SkipCond(last_char)
    /\ \E r \in ReadOutcomes : DoGetChar(r) /\ opReads' = opReads + Answered(r)
    /\ UNCHANGED <<data, identifier_str, num_val, cur_tok, parserVars, panicked,
                   pc, caller, number_str, bound_num, ret, hist, eof_ret, tok_start, primed,
                   lastOp, pre>>

\* the Eof arm reading the source once more before it returns
MatchEof_Reads ==
    /\ \E r \in ReadOutcomes : DoGetChar(r) /\ opReads' = opReads + Answered(r)
    /\ Return(Token_Eof, 0, <<>>)
    /\ UNCHANGED <<data, identifier_str, num_val, parserVars, panicked,
                   number_str, bound_num, tok_start, primed, lastOp, pre>>

\* the arm CharState::Eof
MatchEof ==
    /\ Return(Token_Eof, 0, <<>>)
    /\ UNCHANGED <<srcVars, last_char, identifier_str, num_val, parserVars, panicked,
                   number_str, bound_num, tok_start, opReads, primed, lastRead,
                   lastOp, pre>>

\* an identifier arm that resets the number payload
MatchAlphabetic_ClearsNum(c) ==
    /\ identifier_str' = <<c>>
    /\ num_val' = None
    /\ pc' = "ident"
    /\ tok_start' = position
    /\ UNCHANGED <<srcVars, last_char, cur_tok, parserVars, panicked, caller,
                   number_str, bound_num, ret, hist, eof_ret, opReads, primed, lastRead,
                   lastOp, pre>>

\* the arm CharState::Char(c) if c.is_alphabetic(), up to the loop
MatchAlphabetic(c) ==
    /\ identifier_str' = <<c>>
    /\ pc' = "ident"
    /\ tok_start' = position
    /\ UNCHANGED <<srcVars, last_char, num_val, cur_tok, parserVars, panicked, caller,
                   number_str, bound_num, ret, hist, eof_ret, opReads, primed, lastRead,
                   lastOp, pre>>

\* the arm CharState::Char(c) if c.is_numeric() || c == '.', up to the loop
MatchNumber ==
    /\ number_str' = <<>>
    /\ pc' = "number"
    /\ tok_start' = position
    /\ UNCHANGED <<srcVars, lexVars, parserVars, panicked, caller, bound_num, ret,
                   hist, eof_ret, opReads, primed, lastRead, lastOp, pre>>

\* the Char arm returning without its get_char
MatchChar_NoAdvance(c) ==
    /\ tok_start' = position
    /\ Return(Token_Char(c), position, <<c>>)
    /\ UNCHANGED <<srcVars, last_char, identifier_str, num_val, parserVars, panicked,
                   number_str, bound_num, opReads, primed, lastRead, lastOp, pre>>

\* the arm CharState::Char(c)
MatchChar(c) ==
    /\ \E r \in ReadOutcomes : DoGetChar(r) /\ opReads' = opReads + Answered(r)
    /\ tok_start' = position
    /\ Return(Token_Char(c), position, <<c>>)
    /\ UNCHANGED <<data, identifier_str, num_val, parserVars, panicked,
                   number_str, bound_num, primed, lastOp, pre>>

\* the arm CharState::NotInitailized => unreachable!()
MatchUnreachable ==
    /\ panicked' = TRUE
    /\ UNCHANGED <<srcVars, lexVars, parserVars, pc, caller, number_str, bound_num, ret,
                   hist, eof_ret, tok_start, opReads, primed, lastRead, lastOp, pre>>

\* match self.last_char, once the while loop has ended
Match ==
    /\ pc = "skip" /\ ~SkipCond(last_char) /\ ~panicked
    /\ IF last_char = CharState_Eof THEN MatchEof
       ELSE IF IsChar(last_char) /\ IsAlphabetic(last_char[2])
            THEN MatchAlphabetic(last_char[2])
       ELSE IF IsChar(last_char) /\ NumberStart(last_char[2]) THEN MatchNumber
       ELSE IF IsChar(last_char) THEN MatchChar(last_char[2])
       ELSE MatchUnreachable

\* an identifier loop that reads once more after the character that ends it
IdentStep_EatsTerminator ==
    /\ pc = "ident"
    /\ \E r \in ReadOutcomes :
         LET lc == GetCharResult(last_char, r) IN
         IF IsChar(lc) /\ IsAlphanumeric(lc[2])
         THEN /\ DoGetChar(r)
              /\ opReads' = opReads + Answered(r)
              /\ identifier_str' = Append(identifier_str, lc[2])
              /\ UNCHANGED <<pc, caller, cur_tok, ret, hist, eof_ret>>
         ELSE /\ last_char' = IF ReadAdvance(r) < Len(data)
                              THEN CharState_Char(data[ReadAdvance(r) + 1])
                              ELSE CharState_Eof
              /\ position' = IF ReadAdvance(r) < Len(data) THEN ReadAdvance(r) + 1
                                                           ELSE ReadAdvance(r)
              /\ faults' = FaultsLeft(r)
              /\ lastRead' = IF ReadAdvance(r) < Len(data) THEN "Ok" ELSE "UnexpectedEof"
              /\ opReads' = opReads + 2
              /\ Return(Keyword(identifier_str), tok_start, identifier_str)
              /\ UNCHANGED identifier_str
    /\ UNCHANGED <<data, num_val, parserVars, panicked, number_str, bound_num,
                   tok_start, primed, lastOp, pre>>

\* one iteration of the identifier loop; on break, the keyword match
IdentStep ==
    /\ pc = "ident"
    /\ \E r \in ReadOutcomes :
         /\ DoGetChar(r)
         /\ opReads' = opReads + Answered(r)
         /\ LET lc == GetCharResult(last_char, r) IN
            IF IsChar(lc) /\ IsAlphanumeric(lc[2])
            THEN /\ Len(identifier_str) < MaxText
                 /\ identifier_str' = Append(identifier_str, lc[2])
                 /\ UNCHANGED <<pc, caller, cur_tok, ret, hist, eof_ret>>
            ELSE /\ Return(Keyword(identifier_str), tok_start, identifier_str)
                 /\ UNCHANGED identifier_str
    /\ UNCHANGED <<data, num_val, parserVars, panicked, number_str, bound_num,
                   tok_start, primed, lastOp, pre>>

\* a number loop that tests for a digit before it takes the character
NumberStep_CheckFirst ==
    /\ pc = "number"
    /\ IF IsChar(last_char) /\ IsNumeric(last_char[2])
       THEN \E r \in ReadOutcomes :
              /\ DoGetChar(r)
              /\ opReads' = opReads + Answered(r)
              /\ number_str' = Append(number_str, last_char[2])
              /\ UNCHANGED <<pc, caller, cur_tok, ret, hist, eof_ret, num_val>>
       ELSE /\ num_val' = StoreNum(num_val, number_str)
            /\ Return(Token_Number, tok_start, number_str)
            /\ UNCHANGED <<last_char, position, faults, lastRead, opReads, number_str>>
    /\ UNCHANGED <<data, identifier_str, parserVars, panicked, bound_num,
                   tok_start, primed, lastOp, pre>>

\* one iteration of the number loop; on break, the parse of number_str
NumberStep ==
    /\ pc = "number"
    /\ IF IsChar(last_char)
       THEN \E r \in ReadOutcomes :
              /\ DoGetChar(r)
              /\ opReads' = opReads + Answered(r)
              /\ number_str' = Append(number_str, last_char[2])
              /\ LET lc == GetCharResult(last_char, r) IN
                 IF IsChar(lc) /\ NumberStart(lc[2])
                 THEN /\ Len(number_str) < MaxText
                      /\ UNCHANGED <<pc, caller, cur_tok, ret, hist, eof_ret, num_val>>
                 ELSE /\ num_val' = StoreNum(num_val, Append(number_str, last_char[2]))
                      /\ Return(Token_Number, tok_start, Append(number_str, last_char[2]))
       ELSE /\ num_val' = StoreNum(num_val, number_str)
            /\ Return(Token_Number, tok_start, number_str)
            /\ UNCHANGED <<last_char, position, faults, lastRead, opReads, number_str>>
    /\ UNCHANGED <<data, identifier_str, parserVars, panicked, bound_num,
                   tok_start, primed, lastOp, pre>>

----------------------------------------------------------------------------
(* ASTParser *)

\* a freshness test on the lexer's cur_tok instead of its last_char
ParserNew_ChecksCurTok ==
    /\ Idle /\ ~parser
    /\ lastOp' = "ASTParser::new"
    /\ pre' = Snapshot
    /\ opReads' = 0
    /\ IF cur_tok # Token_None
       THEN /\ panicked' = TRUE
            /\ UNCHANGED <<parserVars, ret>>
       ELSE /\ parser' = TRUE
            /\ ast' = EmptyExprAST
            /\ curtok' = cur_tok
            /\ ret' = <<"ASTParser">>
            /\ UNCHANGED panicked
    /\ UNCHANGED <<srcVars, lexVars, pc, caller, number_str, bound_num, hist, eof_ret,
                   tok_start, primed, lastRead>>

\* ASTParser::new(lexer)
ParserNew ==
    /\ Idle /\ ~parser
    /\ lastOp' = "ASTParser::new"
    /\ pre' = Snapshot
    /\ opReads' = 0
    /\ IF last_char # NotInitailized
       THEN /\ panicked' = TRUE
            /\ UNCHANGED <<parserVars, ret>>
       ELSE /\ parser' = TRUE
            /\ ast' = EmptyExprAST
            /\ curtok' = cur_tok
            /\ ret' = <<"ASTParser">>
            /\ UNCHANGED panicked
    /\ UNCHANGED <<srcVars, lexVars, pc, caller, number_str, bound_num, hist, eof_ret, tok_start,
                   primed, lastRead>>

\* a parse_number_expr that builds the node and leaves the token current
ParseNumberExpr_NoAdvance ==
    /\ Idle /\ parser
    /\ Begin("parse_number_expr")
    /\ IF num_val # None
       THEN ret' = NumberExprAST(num_val[2])
       ELSE ret' = ErrorAST(LexerError("Get a number token but the num_val has no number"))
    /\ UNCHANGED <<srcVars, lexVars, parserVars, panicked, pc, caller, number_str,
                   bound_num, hist, eof_ret, tok_start, primed, lastRead>>

\* a parse_number_expr that calls update_token whatever num_val holds
ParseNumberExpr_AlwaysAdvance ==
    /\ Idle /\ parser
    /\ Begin("parse_number_expr")
    /\ bound_num' = num_val
    /\ pc' = "skip"
    /\ caller' = IF num_val # None THEN "parse_number_expr" ELSE "update_token"
    /\ UNCHANGED <<srcVars, lexVars, parserVars, panicked, number_str, ret, hist,
                   eof_ret, tok_start, primed, lastRead>>

\* ASTParser::parse_number_expr
ParseNumberExpr ==
    /\ Idle /\ parser
    /\ Begin("parse_number_expr")
    /\ IF num_val # None
       THEN /\ bound_num' = num_val
            /\ pc' = "skip"
            /\ caller' = "parse_number_expr"
            /\ UNCHANGED ret
       ELSE /\ ret' = ErrorAST(LexerError("Get a number token but the num_val has no number"))
            /\ UNCHANGED <<bound_num, pc, caller>>
    /\ UNCHANGED <<srcVars, lexVars, parserVars, panicked, number_str, hist, eof_ret, tok_start,
                   primed, lastRead>>

----------------------------------------------------------------------------

Next ==
    \/ GetChar
    \/ GetToken
    \/ UpdateToken
    \/ Skip
    \/ Match
    \/ IdentStep
    \/ NumberStep
    \/ ParserNew
    \/ ParseNumberExpr

\* the steps inside a running get_token
Step == Skip \/ Match \/ IdentStep \/ NumberStep

Spec == Init /\ [][Next]_vars

\* a call that has started keeps executing: the lexer is single-threaded code
SpecLive == InitLive /\ [][Next]_vars /\ WF_vars(Step)

SpecIO == InitIO /\ [][Next]_vars

----------------------------------------------------------------------------
(* The reference tokenization of an input: maximal munch, by index *)

RefNumberChar(c) == IsNumeric(c) \/ c = "."

\* last index of the maximal run of characters satisfying P that starts at i
RefRunEnd(s, i, P(_)) ==
    CHOOSE j \in i..Len(s) :
        /\ \A k \in i..j : P(s[k])
        /\ j = Len(s) \/ ~P(s[j + 1])

RefWord(text) ==
    IF text = <<"d","e","f">> THEN Token_Def
    ELSE IF text = <<"e","x","t","e","r","n">> THEN Token_Extern
    ELSE Token_Identifier

\* the token that starts at the non-space character s[i], with its text
RefTokenAt(s, i) ==
    LET j == IF IsAlphabetic(s[i]) THEN RefRunEnd(s, i, IsAlphanumeric)
             ELSE IF RefNumberChar(s[i]) THEN RefRunEnd(s, i, RefNumberChar)
             ELSE i
        text == SubSeq(s, i, j)
    IN  [tok   |-> IF IsAlphabetic(s[i]) THEN RefWord(text)
                   ELSE IF RefNumberChar(s[i]) THEN Token_Number
                   ELSE Token_Char(s[i]),
         start |-> i,
         text  |-> text]

RECURSIVE RefTokens(_, _)
RefTokens(s, i) ==
    IF i > Len(s) THEN <<[tok |-> Token_Eof, start |-> 0, text |-> <<>>]>>
    ELSE IF s[i] = " " THEN RefTokens(s, i + 1)
    ELSE LET e == RefTokenAt(s, i) IN <<e>> \o RefTokens(s, i + Len(e.text))

IsPrefix(p, q) == Len(p) <= Len(q) /\ p = SubSeq(q, 1, Len(p))

Kinds(h) == [k \in 1..Len(h) |-> h[k].tok]

\* the indices of data covered by the k-th token of the history
Span(k) == hist[k].start .. (hist[k].start + Len(hist[k].text) - 1)

AllSpaces(s) == \A i \in 1..Len(s) : s[i] = " "

\* a call that hands a token to its caller has returned
TokenReturned ==
    /\ pc = "idle" /\ ~panicked
    /\ \/ lastOp \in {"get_token", "update_token"}
       \/ lastOp = "parse_number_expr" /\ pre.num_val # None

\* the token get_token returned to that call
LastTok == IF lastOp = "get_token" THEN ret ELSE cur_tok

\* the non-space characters at or after the cursor, when the last call started
AheadAtCall ==
    LET from == IF pre.last_char = NotInitailized THEN 1 ELSE pre.position
    IN  IF pre.last_char = CharState_Eof THEN {}
        ELSE {k \in from..Len(data) : k >= 1 /\ data[k] # " "}

\* index of the character the cursor held after the spaces were skipped
CursorAtCall == CHOOSE i \in AheadAtCall : \A k \in AheadAtCall : i <= k

\* the cursor stands on data[j + 1], or on Eof when the input ends at j
CursorAfter(j) ==
    IF j < Len(data)
    THEN last_char = CharState_Char(data[j + 1]) /\ position = j + 1
    ELSE last_char = CharState_Eof /\ position = Len(data)

AplusB == <<"a","+","b">>
DefFoo == <<"d","e","f"," ","f","o","o","(","x",","," ","y",")"," ","x","+","y">>

----------------------------------------------------------------------------
(* C1 *)

\* C1: in a run of get_token calls (update_token included, no get_char by the
\* client) the tokens returned up to the first Eof are, in order, the reference
\* maximal-munch tokenization of the input: a prefix of it while the run goes on,
\* all of it once Eof is returned; every non-space character of the input lies in
\* exactly one token and no space lies in any; "a+b" and "def foo(x, y) x+y"
\* give the token sequences the spec lists.
C1_TokenStream ==
    ~primed =>
        /\ IsPrefix(hist, RefTokens(data, 1))
        /\ eof_ret =>
             /\ hist = RefTokens(data, 1)
             /\ \A i \in 1..Len(data) :
                  Cardinality({k \in 1..Len(hist) : i \in Span(k)})
                      = IF data[i] = " " THEN 0 ELSE 1
             /\ \A k \in 1..Len(hist) :
                  hist[k].tok # Token_Eof =>
                      hist[k].text = SubSeq(data, hist[k].start,
                                            hist[k].start + Len(hist[k].text) - 1)
             /\ data = AplusB =>
                  Kinds(hist) = <<Token_Identifier, Token_Char("+"), Token_Identifier,
                                  Token_Eof>>
             /\ data = DefFoo =>
                  Kinds(hist) = <<Token_Def, Token_Identifier, Token_Char("("),
                                  Token_Identifier, Token_Char(","), Token_Identifier,
                                  Token_Char(")"), Token_Identifier, Token_Char("+"),
                                  Token_Identifier, Token_Eof>>

C1_Witness == ~primed /\ eof_ret /\ data = DefFoo /\ Len(hist) = 11 /\ pc = "idle"

----------------------------------------------------------------------------
(* C2 *)

\* C2: on an input of spaces only (the empty input included) every get_token
\* call returns Eof; and on any input, a get_token call made after get_token has
\* returned Eof returns Eof again without reading the source.
C2_EofIdempotent ==
    TokenReturned =>
        /\ AllSpaces(data) => LastTok = Token_Eof
        /\ pre.eof => LastTok = Token_Eof /\ opReads = 0 /\ position = pre.position

C2_Witness ==
    /\ TokenReturned /\ pre.eof /\ ~AllSpaces(data) /\ LastTok = Token_Eof
    /\ lastOp = "get_token"

----------------------------------------------------------------------------
(* C3 *)

\* C3: when the cursor, after the spaces are skipped, holds an alphabetic
\* character, get_token consumes the maximal run of alphanumeric characters that
\* starts there, leaves exactly that run in identifier_str, and returns Def for
\* the run "def", Extern for "extern" and Identifier for every other run.
C3_IdentifierRun ==
    (TokenReturned /\ AheadAtCall # {} /\ IsAlphabetic(data[CursorAtCall])) =>
        LET i == CursorAtCall
            j == RefRunEnd(data, i, IsAlphanumeric)
            run == SubSeq(data, i, j)
        IN  /\ identifier_str = run
            /\ CursorAfter(j)
            /\ LastTok = IF run = <<"d","e","f">> THEN Token_Def
                         ELSE IF run = <<"e","x","t","e","r","n">> THEN Token_Extern
                         ELSE Token_Identifier

C3_Witness ==
    /\ TokenReturned /\ AheadAtCall # {} /\ IsAlphabetic(data[CursorAtCall])
    /\ identifier_str = <<"d","e","f","1">> /\ LastTok = Token_Identifier

----------------------------------------------------------------------------
(* C4 *)

RECURSIVE Pow10(_)
Pow10(n) == IF n = 0 THEN 1 ELSE 10 * Pow10(n - 1)

\* a string of decimal digits as a number, most significant digit first
RECURSIVE RefDigits(_, _)
RefDigits(s, acc) ==
    IF s = <<>> THEN acc ELSE RefDigits(Tail(s), 10 * acc + DigitVal(Head(s)))

IsDigits(s) == \A i \in 1..Len(s) : s[i] \in DecDigits

\* the ways to read run as digits, or as digits '.' digits, with a digit somewhere
RefSplits(run) ==
    {<<a, b>> \in (0..Len(run)) \X (0..Len(run)) :
        /\ a + b >= 1
        /\ \/ b = 0 /\ a = Len(run)
           \/ a + 1 + b = Len(run) /\ run[a + 1] = "."
        /\ IsDigits(SubSeq(run, 1, a))
        /\ IsDigits(SubSeq(run, Len(run) - b + 1, Len(run)))}

RefWellFormed(run) == RefSplits(run) # {}

\* v = <<m, k>> is the value of the literal: m / 10^k = int + frac / 10^b
RefHasValue(v, run) ==
    \E sp \in RefSplits(run) :
        LET a == sp[1]
            b == sp[2]
            int == RefDigits(SubSeq(run, 1, a), 0)
            frac == RefDigits(SubSeq(run, Len(run) - b + 1, Len(run)), 0)
        IN  v[1] * Pow10(b) = (int * Pow10(b) + frac) * Pow10(v[2])

\* C4: when the cursor, after the spaces are skipped, stands at a well-formed
\* decimal literal (digits with at most one '.'), get_token returns Number,
\* consumes the maximal run of digits and '.', and num_val holds the value of
\* that run; the spaces skipped do not change the token or the value ("1.234"
\* gives 1.234, ".234" and "   .234" give 0.234).
C4_NumberValue ==
    (TokenReturned /\ AheadAtCall # {} /\ RefNumberChar(data[CursorAtCall])) =>
        LET i == CursorAtCall
            j == RefRunEnd(data, i, RefNumberChar)
            run == SubSeq(data, i, j)
        IN  RefWellFormed(run) =>
              /\ LastTok = Token_Number
              /\ CursorAfter(j)
              /\ num_val[1] = "Some" /\ RefHasValue(num_val[2], run)
              /\ run = <<"1",".","2","3","4">> => num_val = Some(<<1234, 3>>)
              /\ run = <<".","2","3","4">> => num_val = Some(<<234, 3>>)

C4_Witness ==
    /\ TokenReturned /\ data = <<" "," "," ",".","2","3","4">>
    /\ pre.last_char = NotInitailized
    /\ LastTok = Token_Number /\ num_val = Some(<<234, 3>>)

----------------------------------------------------------------------------
(* C5 *)

NumberExprCalled == pc = "idle" /\ ~panicked /\ parser /\ lastOp = "parse_number_expr"

\* C5: parse_number_expr called with the lexer's current token a Number whose
\* payload is present returns a NumberLiteral node holding that payload (the
\* value of the Number token's text) and advances by exactly one token: the
\* lexer's current token is then the token that follows the Number in the
\* input, Eof when nothing follows.
C5_NumberLiteral ==
    (NumberExprCalled /\ pre.cur_tok = Token_Number /\ pre.num_val # None) =>
        /\ ret = NumberExprAST(pre.num_val[2])
        /\ Len(hist) = pre.ntok + 1
        /\ hist[pre.ntok].tok = Token_Number
        /\ RefHasValue(ret[2], hist[pre.ntok].text)
        /\ cur_tok = RefTokens(data, 1)[pre.ntok + 1].tok
        /\ cur_tok = hist[pre.ntok + 1].tok

C5_Witness ==
    /\ NumberExprCalled /\ pre.cur_tok = Token_Number
    /\ data = <<"4","2"," ","1",".","5","0","+","x","1">>
    /\ ret = NumberExprAST(<<15, 1>>) /\ cur_tok = Token_Char("+")

----------------------------------------------------------------------------
(* C6 *)

\* C6: parse_number_expr called with the current token a Number whose payload
\* is absent returns an Error node wrapping LexerError and leaves the lexer as
\* it was: nothing is read, and the cursor, the current token, identifier_str
\* and num_val are those of before the call.
C6_ErrorKeepsLexer ==
    (NumberExprCalled /\ pre.cur_tok = Token_Number /\ pre.num_val = None) =>
        /\ ret[1] = "ErrorAST" /\ ret[2][1] = "LexerError"
        /\ opReads = 0
        /\ position = pre.position
        /\ last_char = pre.last_char
        /\ cur_tok = pre.cur_tok
        /\ identifier_str = pre.identifier_str
        /\ num_val = pre.num_val
        /\ Len(hist) = pre.ntok

C6_Witness ==
    /\ NumberExprCalled /\ pre.cur_tok = Token_Number /\ pre.num_val = None
    /\ data = <<"1",".","2",".","3"," ","7">>
    /\ ret[1] = "ErrorAST" /\ cur_tok = Token_Number

----------------------------------------------------------------------------
(* C7 *)

\* the lexer had returned a token, or the client had called get_char on it
UsedAtCall == pre.ntok > 0 \/ pre.eof \/ primed

\* C7: ASTParser::new panics on every lexer that has produced a token through
\* get_token or update_token or was primed by a get_char call, and accepts a
\* fresh lexer, giving a parser whose ast is Empty.
C7_FreshLexerOnly ==
    lastOp = "ASTParser::new" =>
        IF UsedAtCall
        THEN panicked /\ ~parser
        ELSE ~panicked /\ parser /\ ast = EmptyExprAST /\ ret = <<"ASTParser">>

C7_Witness ==
    /\ lastOp = "ASTParser::new" /\ panicked /\ ~primed /\ pre.ntok = 1
    /\ pre.cur_tok = Token_None

----------------------------------------------------------------------------
(* C8 *)

\* C8: get_char reads exactly one byte and sets the cursor to Char(c) on
\* success and to Eof at the end of the stream; a read that fails otherwise is
\* reported to the caller (a panic or an error value), not swallowed.
C8_GetCharReports ==
    (pc = "idle" /\ lastOp = "get_char") =>
        /\ opReads <= 1
        /\ lastRead = "Ok" =>
             /\ position = pre.position + 1
             /\ last_char = CharState_Char(data[position])
        /\ lastRead = "UnexpectedEof" =>
             /\ position = pre.position
             /\ last_char = CharState_Eof
        /\ lastRead = "Other" => panicked \/ ret # Unit

----------------------------------------------------------------------------
(* C9 *)

\* C9: after any sequence of update_token and parse_number_expr calls on a
\* parser, the parser's curtok equals the token its lexer produced last.
C9_CurtokMirrors ==
    (pc = "idle" /\ parser /\ lastOp \in {"update_token", "parse_number_expr"}) =>
        curtok = cur_tok

----------------------------------------------------------------------------
(* C10 *)

\* C10: when the maximal run of digits and '.' at the cursor is no well-formed
\* number ("1.2.3", a bare "."), get_token still consumes the whole run and
\* returns Number, and num_val is None, also when it held a value before.
C10_MalformedNumber ==
    (TokenReturned /\ AheadAtCall # {} /\ RefNumberChar(data[CursorAtCall])) =>
        LET i == CursorAtCall
            j == RefRunEnd(data, i, RefNumberChar)
            run == SubSeq(data, i, j)
        IN  ~RefWellFormed(run) =>
              /\ LastTok = Token_Number
              /\ CursorAfter(j)
              /\ num_val = None

C10_Witness ==
    /\ TokenReturned /\ data = <<"7"," ","1",".","2",".","3">>
    /\ pre.num_val = Some(<<7, 0>>) /\ num_val = None
    /\ LastTok = Token_Number /\ last_char = CharState_Eof

----------------------------------------------------------------------------
(* C11 *)

Punct == <<"#"," ","a","\t","1","\n",".">>

\* C11: when the character at the cursor (after the spaces are skipped) is not
\* alphabetic, not numeric and not '.', get_token returns Char of exactly that
\* character and leaves the cursor on the character right after it; tab,
\* newline and '#' are such characters, and no call returns Comment.
C11_CharToken ==
    TokenReturned =>
        /\ LastTok # Token_Comment
        /\ (AheadAtCall # {} /\ ~IsAlphabetic(data[CursorAtCall])
               /\ ~RefNumberChar(data[CursorAtCall])) =>
              LET i == CursorAtCall
              IN  /\ LastTok = Token_Char(data[i])
                  /\ CursorAfter(i)
                  /\ opReads = (i - pre.position) + 1
                  /\ identifier_str = pre.identifier_str
                  /\ num_val = pre.num_val

C11_Witness ==
    /\ TokenReturned /\ data = Punct /\ lastOp = "get_token"
    /\ ret = Token_Char("\t") /\ pre.last_char = CharState_Char("\t")
    /\ last_char = CharState_Char("1") /\ position = 5

----------------------------------------------------------------------------
(* C12 *)

\* the last call was get_token, directly or through update_token
InTokenCall == lastOp \in {"get_token", "update_token", "parse_number_expr"}

\* get_token has left its skipping loop
Classified == InTokenCall /\ (pc \in {"ident", "number"} \/ TokenReturned \/ panicked)

\* C12: for every source, failing reads included, and every sequence of
\* get_char, get_token and update_token calls, the match of get_token never
\* sees the uninitialized cursor (its unreachable!() arm never runs, so the
\* only panic is that of ASTParser::new), and a get_token that starts on a
\* fresh lexer has read the source at least once before it classifies.
C12_NeverUninitialized ==
    /\ panicked => lastOp = "ASTParser::new"
    /\ Classified =>
          /\ last_char # NotInitailized
          /\ pre.last_char = NotInitailized =>
                opReads >= 1 /\ (position > pre.position \/ last_char = CharState_Eof)

C12_Witness ==
    /\ TokenReturned /\ lastOp = "get_token" /\ pre.last_char = NotInitailized
    /\ data = <<"+">> /\ ret = Token_Char("+") /\ opReads = 1 /\ faults = 0
    /\ lastRead = "Other" /\ last_char = CharState_Char("+")

----------------------------------------------------------------------------
(* C13 *)

\* the characters of the token the last call returned, as the lexer holds them
TokenText ==
    IF LastTok \in {Token_Def, Token_Extern, Token_Identifier} THEN identifier_str
    ELSE IF LastTok = Token_Number THEN number_str
    ELSE <<LastTok[2]>>

\* C13: after every call that returns a token other than Eof, the token is the
\* text data[tok_start .. end] that starts at the first non-space character,
\* and the cursor holds data[end + 1], or Eof when the input ends at end: the
\* character that ended the token was read (one read past the text) but belongs
\* to no token yet; a call starts on the cursor the call before it left.
C13_CursorAfterToken ==
    /\ (TokenReturned /\ LastTok # Token_Eof) =>
          LET end == tok_start + Len(TokenText) - 1
          IN  /\ AheadAtCall # {} /\ tok_start = CursorAtCall
              /\ Len(TokenText) >= 1 /\ end <= Len(data)
              /\ TokenText = SubSeq(data, tok_start, end)
              /\ CursorAfter(end)
              /\ opReads = (end + 1) - pre.position
    /\ (InTokenCall /\ pc = "skip" /\ opReads = 0) =>
          last_char = pre.last_char /\ position = pre.position

C13_Witness ==
    /\ TokenReturned /\ data = DefFoo /\ lastOp = "get_token"
    /\ ret = Token_Identifier /\ identifier_str = <<"f","o","o">>
    /\ last_char = CharState_Char("(") /\ position = 8 /\ tok_start = 5

----------------------------------------------------------------------------
(* C14 *)

\* how far into the input a cursor is: 0 before the first read, the index of
\* the character it holds, Len(data) + 1 once it is Eof
CursorIdx(lc, pos) ==
    IF lc = NotInitailized THEN 0
    ELSE IF lc = CharState_Eof THEN Len(data) + 1
    ELSE pos

Consumes ==
    (TokenReturned /\ LastTok # Token_Eof) =>
        CursorIdx(last_char, position) > CursorIdx(pre.last_char, pre.position)

ReadsForward ==
    /\ position \in 0..Len(data)
    /\ IsChar(last_char) => position >= 1 /\ last_char = CharState_Char(data[position])
    /\ last_char = CharState_Eof => position = Len(data)
    /\ last_char = NotInitailized => position = 0
    /\ InTokenCall =>
          opReads = CursorIdx(last_char, position) - CursorIdx(pre.last_char, pre.position)

EofInTime ==
    ~primed => /\ Len(hist) <= Len(data) + 1
               /\ Len(hist) = Len(data) + 1 => eof_ret

\* C14: on a source that delivers its n bytes and then end-of-stream, every
\* started call returns; a call that returns a token other than Eof moves the
\* cursor forward by at least one character; the reads of a call are as many
\* as the cursor moved, each delivering the next byte of the input (no byte
\* twice, none skipped, nothing read after Eof); and a run of get_token calls
\* on a fresh lexer has returned Eof by its (n+1)-th call.
C14_Terminates ==
    /\ [](Consumes /\ ReadsForward /\ EofInTime)
    /\ [][position' \in {position, position + 1} /\ data' = data]_vars
    /\ (pc # "idle") ~> (pc = "idle")

C14_Witness ==
    /\ pc = "idle" /\ ~primed /\ data = AplusB /\ lastOp = "get_token"
    /\ Len(hist) = 4 /\ eof_ret /\ ret = Token_Eof /\ opReads = 0

----------------------------------------------------------------------------
(* C15 *)

WordKinds == {Token_Def, Token_Extern, Token_Identifier}

\* the positions in the history of the tokens of the given kinds
Produced(K) == {k \in 1..Len(hist) : hist[k].tok \in K}

\* the most recent of them
MostRecent(K) == CHOOSE k \in Produced(K) : \A m \in Produced(K) : m <= k

\* C15: after any sequence of token calls, identifier_str is the text of the
\* most recent Identifier, Def or Extern token (empty before the first) and
\* num_val is the payload of the most recent Number token (absent before the
\* first, and absent when that token's text is no number); a call that returns
\* a token of another kind leaves the field unchanged.
C15_PayloadFields ==
    /\ (pc = "idle" /\ ~primed) =>
          /\ identifier_str = IF Produced(WordKinds) = {} THEN <<>>
                               ELSE hist[MostRecent(WordKinds)].text
          /\ IF Produced({Token_Number}) = {} THEN num_val = None
             ELSE LET run == hist[MostRecent({Token_Number})].text
                  IN  IF RefWellFormed(run)
                      THEN num_val[1] = "Some" /\ RefHasValue(num_val[2], run)
                      ELSE num_val = None
    /\ TokenReturned =>
          /\ LastTok \notin WordKinds => identifier_str = pre.identifier_str
          /\ LastTok # Token_Number => num_val = pre.num_val

C15_Witness ==
    /\ TokenReturned /\ ~primed /\ lastOp = "get_token"
    /\ data = <<"4","2"," ","1",".","5","0","+","x","1">>
    /\ Len(hist) = 4 /\ ret = Token_Identifier
    /\ identifier_str = <<"x","1">> /\ num_val = Some(<<15, 1>>)

----------------------------------------------------------------------------
(* C16 *)

\* parse_number_expr called update_token
ConsumedToken == Len(hist) > pre.ntok \/ cur_tok # pre.cur_tok \/ opReads > 0

\* C16: in any sequence of update_token and parse_number_expr calls, a
\* parse_number_expr that returns a NumberExprAST or consumes a token was
\* called with a Number as the lexer's current token, and the value returned
\* is the payload of that token, the last one of the history at the call.
C16_NumberOnlyOnNumber ==
    (NumberExprCalled /\ (ret[1] = "NumberExprAST" \/ ConsumedToken)) =>
        /\ pre.cur_tok = Token_Number
        /\ pre.ntok >= 1 /\ hist[pre.ntok].tok = Token_Number
        /\ RefHasValue(ret[2], hist[pre.ntok].text)

----------------------------------------------------------------------------
(* C17 *)

\* C17: for every behaviour of the source, failing reads included, a get_token
\* that has started and has not returned or panicked can always go on to a
\* different state: no read, failed or not, leaves the skipping loop or the
\* identifier loop where it was with nothing changed (a loop that repeats
\* with the lexer and the source unchanged is a loop that runs forever).
C17_AlwaysProgress == pc = "idle" \/ panicked \/ ENABLED <<Step>>_vars

====
